---- MODULE Spec2Model ----
(***************************************************************************)
(* ByteBuffer (src/src/bytebuffer.rs): a growable byte vector with one     *)
(* read/write position, typed little-endian put_ and get_ operations,      *)
(* length-prefixed UTF-8 strings and float triples.                        *)
(*                                                                         *)
(* Representation of machine values (TLC integers are 32-bit signed):      *)
(*   u8     a number in 0..255                                             *)
(*   i32    a number in -2^31 .. 2^31-1                                    *)
(*   u32    two 16-bit limbs [hi, lo], value hi * 2^16 + lo                *)
(*   f32    its bit pattern (f32::to_bits), a u32                          *)
(*   usize  [wrap, off], value wrap * 2^64 + off with wrap in {0, 1};      *)
(*          wrap = 1 only arises from casting a negative i32               *)
(*   String its UTF-8 bytes (what a Rust String stores)                    *)
(***************************************************************************)
EXTENDS Integers, Sequences, FiniteSets, TLC

VARIABLES buffer, position, op, result, chain, rewound

vars == <<buffer, position, op, result, chain, rewound>>

(* ------------------------------ bounds -------------------------------- *)

\* longest byte vector handed to new(Some(bytes))
InitLen == 4
\* scalar writes and ensure_capacity are issued only while they end at or
\* before MaxLen
MaxLen == 5
\* put_string is issued only while the string ends at or before MaxStringEnd
MaxStringEnd == 6
\* put_vector / put_rotator are issued only from a position up to MaxTripleStart
MaxTripleStart == 0
\* largest argument handed to ensure_capacity
MaxReq == 3

(* ------------------------------ inputs -------------------------------- *)

InitBytes == {0, 1, 255}
ByteArgs == {255}
Int32Args == {12345, -1, 1}
\* 98765 = 0x000181CD and 0xFFFFFFFF
UInt32Args == {[hi |-> 1, lo |-> 33229], [hi |-> 65535, lo |-> 65535]}
\* bit patterns of 1.0, 2.0, 3.0, -0.0 and a NaN with payload
F1 == [hi |-> 16256, lo |-> 0]
F2 == [hi |-> 16384, lo |-> 0]
F3 == [hi |-> 16448, lo |-> 0]
FNegZero == [hi |-> 32768, lo |-> 0]
FNaN == [hi |-> 32704, lo |-> 1]
FloatArgs == {F1, FNegZero}
TripleArgs == {<<F1, F2, F3>>, <<FNegZero, FNaN, F1>>}
\* "", "A", "é" (U+00E9)
StringArgs == {<<>>, <<65>>, <<195, 169>>}

RECURSIVE SeqsUpTo(_, _)
SeqsUpTo(S, n) ==
    IF n = 0 THEN {<<>>}
    ELSE LET shorter == SeqsUpTo(S, n - 1)
         IN  shorter \cup {Append(s, x) : s \in shorter, x \in S}

(* --------------------------- byte encodings --------------------------- *)

\* i32::to_le_bytes (two's complement through floor division)
I32ToLe(v) ==
    << v % 256, (v \div 256) % 256, (v \div 65536) % 256, (v \div 16777216) % 256 >>

\* i32::from_le_bytes
I32FromLe(b) ==
    LET top == IF b[4] >= 128 THEN b[4] - 256 ELSE b[4]
    IN  top * 16777216 + b[3] * 65536 + b[2] * 256 + b[1]

\* u32::to_le_bytes
U32ToLe(v) == << v.lo % 256, v.lo \div 256, v.hi % 256, v.hi \div 256 >>

\* fault seeded into the u32 decoder: the bytes are taken most significant first
U32FromBe(b) == [hi |-> b[2] + 256 * b[1], lo |-> b[4] + 256 * b[3]]

\* u32::from_le_bytes
U32FromLe(b) == [hi |-> b[3] + 256 * b[4], lo |-> b[1] + 256 * b[2]]

\* f32::to_bits / f32::from_bits: a float is carried as its bit pattern
F32ToLe(v) == U32ToLe(v)
F32FromLe(b) == U32FromLe(b)

\* longer wire images: a string with an invalid UTF-8 body, "é" as a string,
\* a string cut inside a character, one float triple and a truncated one
Images == { <<1, 0, 0, 0, 255>>, <<2, 0, 0, 0, 195, 169>>, <<2, 0, 0, 0, 195, 40>>,
            F32ToLe(F1) \o F32ToLe(F2) \o F32ToLe(F3),
            F32ToLe(F1) \o F32ToLe(F2) \o <<0, 0>> }

InitData == SeqsUpTo(InitBytes, InitLen) \cup Images

(* ------------------------------ usize --------------------------------- *)

\* `x as usize` for an i32 x: sign extension, 2^64 + x when x < 0.
\* The value is wrap * 2^64 + hi * 2^16 + lo with 0 <= lo < 2^16.
I32AsUsize(x) ==
    [wrap |-> IF x < 0 THEN 1 ELSE 0, hi |-> x \div 65536, lo |-> x % 65536]

\* position + length, before reduction modulo 2^64
UsizeAdd(pos, len) ==
    LET low == len.lo + pos
    IN  [wrap |-> len.wrap, hi |-> len.hi + (low \div 65536), lo |-> low % 65536]

\* the sum does not fit in 64 bits
UsizeOverflows(u) == u.wrap = 1 /\ u.hi >= 0

\* the sum reduced modulo 2^64
UsizeWrapped(u) == IF UsizeOverflows(u) THEN [u EXCEPT !.wrap = 0] ELSE u

\* u > n for a reduced u and a vector length n
UsizeGt(u, n) ==
    IF u.wrap = 1 THEN TRUE
    ELSE u.hi > n \div 65536 \/ (u.hi = n \div 65536 /\ u.lo > n % 65536)

\* a reduced u that is at most a vector length, as a number
UsizeToNat(u) == u.hi * 65536 + u.lo

(* ------------------------------ results ------------------------------- *)

Ok(v) == [kind |-> "Ok", val |-> v]
Err(m) == [kind |-> "Err", msg |-> m]
Panic(m) == [kind |-> "Panic", msg |-> m]
Underflow == Err("Buffer underflow")
InvalidUtf8 == Err("Invalid UTF-8 string")
SelfRef == [kind |-> "Self"]
Unit == [kind |-> "Unit"]

\* a buffer value
BB(buf, pos) == [buffer |-> buf, position |-> pos]
\* a buffer value with the value returned to the caller
Ret(b, r) == [b |-> b, res |-> r]

(* ----------------------------- ByteBuffer ----------------------------- *)

Zeros(n) == [i \in 1..n |-> 0]

\* Vec::resize(new_len, 0) for new_len > len
Resize(buf, newLen) == buf \o Zeros(newLen - Len(buf))

\* writing bytes through a Cursor over the slice buffer[pos .. pos + Len(bytes)]
WriteAt(buf, pos, bytes) ==
    [i \in 1..Len(buf) |->
        IF i > pos /\ i <= pos + Len(bytes) THEN bytes[i - pos] ELSE buf[i]]

\* the slice buffer[pos .. pos + n]
Slice(buf, pos, n) == SubSeq(buf, pos + 1, pos + n)

\* Option<Vec<u8>>
None == [some |-> FALSE, val |-> <<>>]
Some(v) == [some |-> TRUE, val |-> v]

\* data.unwrap_or_default()
unwrap_or_default(data) == IF data.some THEN data.val ELSE <<>>

new(data) == BB(unwrap_or_default(data), 0)

\* faults seeded into ensure_capacity: growth one byte short, growth one byte
\* long, the position left out of the required capacity, and a resize made
\* whether or not the storage is already long enough
ensure_capacity_short(b, required_bytes) ==
    LET required_capacity == b.position + required_bytes
    IN  IF required_capacity > Len(b.buffer)
        THEN BB(Resize(b.buffer, required_capacity - 1), b.position)
        ELSE b

ensure_capacity_long(b, required_bytes) ==
    LET required_capacity == b.position + required_bytes
    IN  IF required_capacity > Len(b.buffer)
        THEN BB(Resize(b.buffer, required_capacity + 1), b.position)
        ELSE b

ensure_capacity_abs(b, required_bytes) ==
    IF required_bytes > Len(b.buffer)
    THEN BB(Resize(b.buffer, required_bytes), b.position)
    ELSE b

ensure_capacity_always(b, required_bytes) ==
    LET required_capacity == b.position + required_bytes
    IN  IF required_capacity > Len(b.buffer)
        THEN BB(Resize(b.buffer, required_capacity), b.position)
        ELSE BB(SubSeq(b.buffer, 1, required_capacity), b.position)

ensure_capacity(b, required_bytes) ==
    LET required_capacity == b.position + required_bytes
    IN  IF required_capacity > Len(b.buffer)
        THEN BB(Resize(b.buffer, required_capacity), b.position)
        ELSE b

put_int32(b, value) ==
    LET b1 == ensure_capacity(b, 4)
    IN  BB(WriteAt(b1.buffer, b1.position, I32ToLe(value)), b1.position + 4)

get_int32(b) ==
    IF b.position + 4 > Len(b.buffer)
    THEN Ret(b, Underflow)
    ELSE Ret(BB(b.buffer, b.position + 4), Ok(I32FromLe(Slice(b.buffer, b.position, 4))))

put_uint32(b, value) ==
    LET b1 == ensure_capacity(b, 4)
    IN  BB(WriteAt(b1.buffer, b1.position, U32ToLe(value)), b1.position + 4)

get_uint32(b) ==
    IF b.position + 4 > Len(b.buffer)
    THEN Ret(b, Underflow)
    ELSE Ret(BB(b.buffer, b.position + 4), Ok(U32FromLe(Slice(b.buffer, b.position, 4))))

put_byte(b, value) ==
    LET b1 == ensure_capacity(b, 1)
    IN  BB([b1.buffer EXCEPT ![b1.position + 1] = value], b1.position + 1)

\* fault seeded into get_byte: the position is not advanced
get_byte_stuck(b) ==
    IF b.position + 1 > Len(b.buffer)
    THEN Ret(b, Underflow)
    ELSE Ret(b, Ok(b.buffer[b.position + 1]))

get_byte(b) ==
    IF b.position + 1 > Len(b.buffer)
    THEN Ret(b, Underflow)
    ELSE Ret(BB(b.buffer, b.position + 1), Ok(b.buffer[b.position + 1]))

put_bool(b, value) == put_byte(b, IF value THEN 1 ELSE 0)

get_bool(b) ==
    LET r == get_byte(b)
    IN  IF r.res.kind # "Ok" THEN r ELSE Ret(r.b, Ok(r.res.val # 0))

put_float(b, value) ==
    LET b1 == ensure_capacity(b, 4)
    IN  BB(WriteAt(b1.buffer, b1.position, F32ToLe(value)), b1.position + 4)

get_float(b) ==
    IF b.position + 4 > Len(b.buffer)
    THEN Ret(b, Underflow)
    ELSE Ret(BB(b.buffer, b.position + 4), Ok(F32FromLe(Slice(b.buffer, b.position, 4))))

\* core::str::from_utf8 accepts exactly the well-formed UTF-8 byte sequences
IsCont(s, i) == i <= Len(s) /\ s[i] >= 128 /\ s[i] <= 191
InRange(s, i, lo, hi) == i <= Len(s) /\ s[i] >= lo /\ s[i] <= hi

RECURSIVE Utf8From(_, _)
Utf8From(s, i) ==
    IF i > Len(s) THEN TRUE
    ELSE LET c == s[i]
         IN  IF c < 128 THEN Utf8From(s, i + 1)
             ELSE IF c >= 194 /\ c <= 223
                  THEN IsCont(s, i + 1) /\ Utf8From(s, i + 2)
             ELSE IF c = 224
                  THEN InRange(s, i + 1, 160, 191) /\ IsCont(s, i + 2) /\ Utf8From(s, i + 3)
             ELSE IF c = 237
                  THEN InRange(s, i + 1, 128, 159) /\ IsCont(s, i + 2) /\ Utf8From(s, i + 3)
             ELSE IF c >= 225 /\ c <= 239
                  THEN IsCont(s, i + 1) /\ IsCont(s, i + 2) /\ Utf8From(s, i + 3)
             ELSE IF c = 240
                  THEN InRange(s, i + 1, 144, 191) /\ IsCont(s, i + 2) /\ IsCont(s, i + 3)
                       /\ Utf8From(s, i + 4)
             ELSE IF c >= 241 /\ c <= 243
                  THEN IsCont(s, i + 1) /\ IsCont(s, i + 2) /\ IsCont(s, i + 3)
                       /\ Utf8From(s, i + 4)
             ELSE IF c = 244
                  THEN InRange(s, i + 1, 128, 143) /\ IsCont(s, i + 2) /\ IsCont(s, i + 3)
                       /\ Utf8From(s, i + 4)
             ELSE FALSE

from_utf8_ok(bytes) == Utf8From(bytes, 1)

\* the loop `for &byte in bytes { self.put_byte(byte); }`
RECURSIVE put_bytes(_, _, _)
put_bytes(b, bytes, i) ==
    IF i > Len(bytes) THEN b ELSE put_bytes(put_byte(b, bytes[i]), bytes, i + 1)

\* fault seeded into put_string: the prefix counts characters, not bytes
CharCount(bytes) == Cardinality({i \in 1..Len(bytes) : bytes[i] < 128 \/ bytes[i] > 191})

put_string_chars(b, value) ==
    LET bytes == value
        b1 == put_int32(b, CharCount(bytes))
        b2 == ensure_capacity(b1, Len(bytes))
    IN  put_bytes(b2, bytes, 1)

put_string(b, value) ==
    LET bytes == value
        b1 == put_int32(b, Len(bytes))
        b2 == ensure_capacity(b1, Len(bytes))
    IN  put_bytes(b2, bytes, 1)

\* overflow_checks: whether the build traps on integer overflow (debug builds do,
\* release builds wrap modulo 2^64)
get_string(b, overflow_checks) ==
    LET r == get_int32(b)
    IN  IF r.res.kind # "Ok" THEN r
        ELSE
        LET b1 == r.b
            length == I32AsUsize(r.res.val)
            sum == UsizeAdd(b1.position, length)
        IN  IF UsizeOverflows(sum) /\ overflow_checks
            THEN Ret(b1, Panic("attempt to add with overflow"))
            ELSE IF UsizeGt(UsizeWrapped(sum), Len(b1.buffer))
            THEN Ret(b1, Underflow)
            ELSE LET end == UsizeToNat(UsizeWrapped(sum))
                 IN  IF end < b1.position
                     THEN Ret(b1, Panic("slice index starts after its end"))
                     ELSE LET body == Slice(b1.buffer, b1.position, end - b1.position)
                          IN  IF ~from_utf8_ok(body)
                              THEN Ret(b1, InvalidUtf8)
                              ELSE Ret(BB(b1.buffer, end), Ok(body))

put_vector(b, vector) == put_float(put_float(put_float(b, vector[1]), vector[2]), vector[3])

get_vector(b) ==
    LET r1 == get_float(b)
    IN  IF r1.res.kind # "Ok" THEN r1
        ELSE LET r2 == get_float(r1.b)
             IN  IF r2.res.kind # "Ok" THEN r2
                 ELSE LET r3 == get_float(r2.b)
                      IN  IF r3.res.kind # "Ok" THEN r3
                          ELSE Ret(r3.b, Ok(<<r1.res.val, r2.res.val, r3.res.val>>))

put_rotator(b, rotator) ==
    put_float(put_float(put_float(b, rotator[1]), rotator[2]), rotator[3])

get_rotator(b) ==
    LET r1 == get_float(b)
    IN  IF r1.res.kind # "Ok" THEN r1
        ELSE LET r2 == get_float(r1.b)
             IN  IF r2.res.kind # "Ok" THEN r2
                 ELSE LET r3 == get_float(r2.b)
                      IN  IF r3.res.kind # "Ok" THEN r3
                          ELSE Ret(r3.b, Ok(<<r1.res.val, r2.res.val, r3.res.val>>))

get_buffer(b) == b.buffer

HexDigits == <<"0", "1", "2", "3", "4", "5", "6", "7",
               "8", "9", "a", "b", "c", "d", "e", "f">>

\* fault seeded into the byte formatter: "{:x}", no zero padding
FormatHexNoPad(byte) ==
    IF byte < 16 THEN <<HexDigits[byte + 1]>>
    ELSE <<HexDigits[(byte \div 16) + 1], HexDigits[(byte % 16) + 1]>>

\* format!("{:02x}", byte)
FormatHex02(byte) == <<HexDigits[(byte \div 16) + 1], HexDigits[(byte % 16) + 1]>>

\* iter().map(..).collect::<String>(); the String is carried as its characters
RECURSIVE CollectHex(_, _)
CollectHex(buf, i) ==
    IF i > Len(buf) THEN <<>> ELSE FormatHex02(buf[i]) \o CollectHex(buf, i + 1)

to_hex(b) == CollectHex(b.buffer, 1)

(* ------------------------------- state -------------------------------- *)

\* the buffer value held in the variables
Self == BB(buffer, position)

\* op: the last call, [name, arg, start] with start the position it was made at
Call(name, arg) == [name |-> name, arg |-> arg, start |-> position]

\* rewound: a test has set the position back (never in Spec)
\* chain: the put_ calls made so far, kept while the buffer came from new(None)
\* and has only been written to
Impure == [pure |-> FALSE, calls |-> <<>>]
Chained(name, arg) ==
    IF chain.pure
    THEN [pure |-> TRUE, calls |-> Append(chain.calls, [name |-> name, arg |-> arg])]
    ELSE Impure

\* a panic unwinds the caller: no further call is made on the buffer
Running == result.kind # "Panic"

Init ==
    /\ \E data \in {None} \cup {Some(d) : d \in InitData} :
          /\ buffer = new(data).buffer
          /\ position = new(data).position
          /\ op = [name |-> "new", arg |-> data, start |-> 0]
          /\ chain = IF data = None THEN [pure |-> TRUE, calls |-> <<>>] ELSE Impure
    /\ result = SelfRef
    /\ rewound = FALSE

\* a write: the buffer is replaced, the call returns &mut Self
Wrote(name, arg, b) ==
    /\ buffer' = b.buffer
    /\ position' = b.position
    /\ op' = Call(name, arg)
    /\ result' = SelfRef
    /\ chain' = Chained(name, arg)
    /\ UNCHANGED rewound

\* a read: the buffer is replaced, the call returns r.res
Read(name, arg, r) ==
    /\ buffer' = r.b.buffer
    /\ position' = r.b.position
    /\ op' = Call(name, arg)
    /\ result' = r.res
    /\ chain' = Impure
    /\ UNCHANGED rewound

EnsureCapacity ==
    /\ Running
    /\ \E n \in 0..MaxReq :
          /\ position + n <= MaxLen
          /\ buffer' = ensure_capacity(Self, n).buffer
          /\ position' = ensure_capacity(Self, n).position
          /\ op' = Call("ensure_capacity", n)
          /\ result' = Unit
          /\ chain' = Impure
          /\ UNCHANGED rewound

PutInt32 ==
    /\ Running /\ position + 4 <= MaxLen
    /\ \E v \in Int32Args : Wrote("put_int32", v, put_int32(Self, v))

PutUint32 ==
    /\ Running /\ position + 4 <= MaxLen
    /\ \E v \in UInt32Args : Wrote("put_uint32", v, put_uint32(Self, v))

PutFloat ==
    /\ Running /\ position + 4 <= MaxLen
    /\ \E v \in FloatArgs : Wrote("put_float", v, put_float(Self, v))

PutByte ==
    /\ Running /\ position + 1 <= MaxLen
    /\ \E v \in ByteArgs : Wrote("put_byte", v, put_byte(Self, v))

PutBool ==
    /\ Running /\ position + 1 <= MaxLen
    /\ \E v \in BOOLEAN : Wrote("put_bool", v, put_bool(Self, v))

PutString ==
    /\ Running
    /\ \E s \in StringArgs :
          /\ position + 4 + Len(s) <= MaxStringEnd
          /\ Wrote("put_string", s, put_string(Self, s))

PutVector ==
    /\ Running /\ position <= MaxTripleStart
    /\ \E t \in TripleArgs : Wrote("put_vector", t, put_vector(Self, t))

PutRotator ==
    /\ Running /\ position <= MaxTripleStart
    /\ \E t \in TripleArgs : Wrote("put_rotator", t, put_rotator(Self, t))

GetInt32 == Running /\ Read("get_int32", <<>>, get_int32(Self))
GetUint32 == Running /\ Read("get_uint32", <<>>, get_uint32(Self))
GetFloat == Running /\ Read("get_float", <<>>, get_float(Self))
GetByte == Running /\ Read("get_byte", <<>>, get_byte(Self))
GetBool == Running /\ Read("get_bool", <<>>, get_bool(Self))
GetVector == Running /\ Read("get_vector", <<>>, get_vector(Self))
GetRotator == Running /\ Read("get_rotator", <<>>, get_rotator(Self))

GetString ==
    /\ Running
    /\ \E overflow_checks \in BOOLEAN :
          Read("get_string", <<>>, get_string(Self, overflow_checks))

GetBuffer ==
    /\ Running
    /\ op' = Call("get_buffer", <<>>)
    /\ result' = Ok(get_buffer(Self))
    /\ UNCHANGED <<buffer, position, chain, rewound>>

ToHex ==
    /\ Running
    /\ op' = Call("to_hex", <<>>)
    /\ result' = Ok(to_hex(Self))
    /\ UNCHANGED <<buffer, position, chain, rewound>>

PutNames == {"put_int32", "put_uint32", "put_float", "put_byte", "put_bool",
             "put_string", "put_vector", "put_rotator"}

\* the tests' `buffer.position = 0`: the position is set back to where the
\* write just made started
Rewind ==
    /\ Running /\ ~rewound
    /\ op.name \in PutNames
    /\ rewound' = TRUE
    /\ position' = op.start
    /\ op' = Call("rewind", op)
    /\ result' = Unit
    /\ chain' = Impure
    /\ UNCHANGED buffer

Next ==
    \/ EnsureCapacity
    \/ PutInt32 \/ PutUint32 \/ PutFloat \/ PutByte \/ PutBool
    \/ PutString \/ PutVector \/ PutRotator
    \/ GetInt32 \/ GetUint32 \/ GetFloat \/ GetByte \/ GetBool
    \/ GetString \/ GetVector \/ GetRotator
    \/ GetBuffer \/ ToHex

Spec == Init /\ [][Next]_vars

Gets ==
    \/ GetInt32 \/ GetUint32 \/ GetFloat \/ GetByte \/ GetBool
    \/ GetString \/ GetVector \/ GetRotator

\* a round-trip test: any calls, then one rewind to the start of the last write,
\* then reads only
NextRT ==
    \/ ~rewound /\ Next
    \/ Rewind
    \/ rewound /\ Gets

SpecRT == Init /\ [][NextRT]_vars

(* ----------------------------- properties ---------------------------- *)

Reads4 == {"get_int32", "get_uint32", "get_float"}
Reads1 == {"get_byte", "get_bool"}
Max(a, b) == IF a >= b THEN a ELSE b

\* C1: in every state reached through the public operations alone, the
\* position is at most the length of the storage.
PositionWithinStorage == position <= Len(buffer)

\* a get_string that failed on an invalid UTF-8 body, with bytes left over
PositionWithinStorageWitness ==
    /\ op.name = "get_string" /\ result = InvalidUtf8
    /\ position > 0 /\ position < Len(buffer)

\* C2: a scalar read of width w made with position + w > length returns the
\* underflow error and leaves position and storage as they were; otherwise it
\* returns a value and advances the position by exactly w.
ScalarReadContract ==
    [][ op'.name \in Reads4 \cup Reads1 =>
          LET w == IF op'.name \in Reads4 THEN 4 ELSE 1
          IN  IF position + w > Len(buffer)
              THEN result' = Underflow /\ position' = position /\ buffer' = buffer
              ELSE result'.kind = "Ok" /\ position' = position + w ]_vars

\* a 4-byte read that underflowed with one to three bytes remaining
ScalarReadContractWitness ==
    /\ op.name \in Reads4 /\ result = Underflow
    /\ position < Len(buffer)

\* C3: a get_string, get_vector or get_rotator that returns an error leaves
\* the position where it was before the call.
FailedReadKeepsPosition ==
    [][ (op'.name \in {"get_string", "get_vector", "get_rotator"} /\ result'.kind = "Err")
          => position' = position ]_vars

\* the signed 32-bit length prefix at the position
PrefixAt(buf, pos) ==
    LET b == Slice(buf, pos, 4)
        top == IF b[4] >= 128 THEN b[4] - 256 ELSE b[4]
    IN  top * 16777216 + b[3] * 65536 + b[2] * 256 + b[1]

\* C4: a get_string made with at least 4 bytes remaining, whose length prefix
\* is negative or larger than the bytes remaining after the prefix, returns
\* the underflow error (it neither aborts nor returns a string).
OversizedPrefixUnderflows ==
    [][ (/\ op'.name = "get_string"
         /\ position + 4 <= Len(buffer)
         /\ \/ PrefixAt(buffer, position) < 0
            \/ PrefixAt(buffer, position) > Len(buffer) - (position + 4))
          => result' = Underflow ]_vars

\* the read that matches a fixed-width write, and the width of its encoding
ReaderOf(put) ==
    CASE put = "put_int32" -> "get_int32"
      [] put = "put_uint32" -> "get_uint32"
      [] put = "put_float" -> "get_float"
      [] put = "put_byte" -> "get_byte"
      [] put = "put_bool" -> "get_bool"
      [] put = "put_vector" -> "get_vector"
      [] put = "put_rotator" -> "get_rotator"
      [] put = "put_string" -> "get_string"

FixedWidth(put) ==
    CASE put \in {"put_int32", "put_uint32", "put_float"} -> 4
      [] put \in {"put_byte", "put_bool"} -> 1
      [] put \in {"put_vector", "put_rotator"} -> 12

FixedPuts == PutNames \ {"put_string"}

\* C5: after put_X(v) made at position c and a rewind to c, the matching
\* get_X returns Ok(v) and leaves the position at c plus the width of X
\* (4, 4, 4, 1, 1, and 12 for the float triples).
FixedWidthRoundTrip ==
    [][ (/\ op.name = "rewind"
         /\ op.arg.name \in FixedPuts
         /\ op'.name = ReaderOf(op.arg.name))
          => /\ result' = Ok(op.arg.arg)
             /\ position' = op.arg.start + FixedWidth(op.arg.name) ]_vars

\* a triple holding -0.0 and a NaN with payload, written and read back
FixedWidthRoundTripWitness ==
    /\ rewound /\ op.name = "get_rotator"
    /\ result = Ok(<<FNegZero, FNaN, F1>>)
    /\ position = op.start + 12

\* C6: put_string(s) made at position c writes the byte length of s as four
\* little-endian bytes followed by the bytes of s and leaves the position at
\* c + 4 + len(s); after a rewind to c, get_string returns Ok(s) and leaves the
\* position at c + 4 + len(s).
StringRoundTrip ==
    [][ /\ op'.name = "put_string" =>
             LET s == op'.arg
                 n == Len(s)
             IN  /\ position' = position + 4 + n
                 /\ Len(buffer') >= position'
                 /\ SubSeq(buffer', position + 1, position + 4)
                        = <<n % 256, (n \div 256) % 256, 0, 0>>
                 /\ SubSeq(buffer', position + 5, position + 4 + n) = s
        /\ (op.name = "rewind" /\ op.arg.name = "put_string" /\ op'.name = "get_string")
             => /\ result' = Ok(op.arg.arg)
                /\ position' = op.arg.start + 4 + Len(op.arg.arg) ]_vars

\* a two-byte character written and read back
StringRoundTripWitness ==
    /\ rewound /\ op.name = "get_string"
    /\ result = Ok(<<195, 169>>)
    /\ position = op.start + 6

\* the bytes one put_ call appends
EncodingOf(call) ==
    CASE call.name = "put_int32" -> I32ToLe(call.arg)
      [] call.name = "put_uint32" -> U32ToLe(call.arg)
      [] call.name = "put_float" -> F32ToLe(call.arg)
      [] call.name = "put_byte" -> <<call.arg>>
      [] call.name = "put_bool" -> <<IF call.arg THEN 1 ELSE 0>>
      [] call.name = "put_string" -> I32ToLe(Len(call.arg)) \o call.arg
      [] call.name \in {"put_vector", "put_rotator"} ->
            F32ToLe(call.arg[1]) \o F32ToLe(call.arg[2]) \o F32ToLe(call.arg[3])

EncodedWidth(call) ==
    IF call.name = "put_string" THEN 4 + Len(call.arg) ELSE FixedWidth(call.name)

RECURSIVE ConcatEncodings(_)
ConcatEncodings(calls) ==
    IF calls = <<>> THEN <<>>
    ELSE EncodingOf(Head(calls)) \o ConcatEncodings(Tail(calls))

RECURSIVE SumWidths(_)
SumWidths(calls) ==
    IF calls = <<>> THEN 0 ELSE EncodedWidth(Head(calls)) + SumWidths(Tail(calls))

\* C7: after new(None) and put_ calls only, the storage is the concatenation
\* of the encodings of the written values in call order, and the position
\* equals the storage length, which equals the sum of the encoded widths.
ChainedWritesContiguous ==
    chain.pure =>
        /\ buffer = ConcatEncodings(chain.calls)
        /\ position = Len(buffer)
        /\ Len(buffer) = SumWidths(chain.calls)

\* a bool, then a string, written one after the other
ChainedWritesContiguousWitness ==
    /\ chain.pure /\ Len(chain.calls) = 2
    /\ chain.calls[1].name = "put_bool"
    /\ chain.calls[2] = [name |-> "put_string", arg |-> <<65>>]
    /\ op.name = "put_string"

LowerHex == <<"0", "1", "2", "3", "4", "5", "6", "7",
              "8", "9", "a", "b", "c", "d", "e", "f">>
IsLowerHex(c) == \E n \in 1..16 : LowerHex[n] = c
HexValue(c) == (CHOOSE n \in 1..16 : LowerHex[n] = c) - 1

\* C8: to_hex returns 2n lowercase hexadecimal characters for a storage of n
\* bytes, characters 2i and 2i+1 being the high and low nibble of byte i, from
\* offset 0 whatever the position; after put_int32(12345) on an empty buffer it
\* returns "39300000"; to_hex and get_buffer change neither storage nor position.
ToHexFormat ==
    [][ /\ op'.name = "to_hex" =>
             /\ result'.kind = "Ok"
             /\ Len(result'.val) = 2 * Len(buffer)
             /\ \A k \in 1..Len(result'.val) : IsLowerHex(result'.val[k])
             /\ \A i \in 1..Len(buffer) :
                   /\ 2 * i <= Len(result'.val)
                   /\ HexValue(result'.val[2 * i - 1]) = buffer[i] \div 16
                   /\ HexValue(result'.val[2 * i]) = buffer[i] % 16
             /\ (chain.pure /\ chain.calls = <<[name |-> "put_int32", arg |-> 12345]>>)
                   => result'.val = <<"3", "9", "3", "0", "0", "0", "0", "0">>
             /\ buffer' = buffer /\ position' = position
        /\ op'.name = "get_buffer" =>
             /\ result' = Ok(buffer)
             /\ buffer' = buffer /\ position' = position ]_vars

\* to_hex after put_int32(12345) on an empty buffer, the position being 4
ToHexFormatWitness ==
    /\ op.name = "to_hex" /\ chain.pure /\ position = 4
    /\ result = Ok(<<"3", "9", "3", "0", "0", "0", "0", "0">>)

\* C9: ensure_capacity(n) with position + n above the storage length makes the
\* length exactly position + n, keeps the old bytes and zero-fills the new
\* ones; otherwise it leaves the storage unchanged; it never moves the
\* position; and no operation ever shortens the storage.
EnsureCapacityGrowth ==
    [][ /\ Len(buffer') >= Len(buffer)
        /\ op'.name = "ensure_capacity" =>
             /\ position' = position
             /\ IF position + op'.arg > Len(buffer)
                THEN /\ Len(buffer') = position + op'.arg
                     /\ SubSeq(buffer', 1, Len(buffer)) = buffer
                     /\ \A i \in (Len(buffer) + 1)..Len(buffer') : buffer'[i] = 0
                ELSE buffer' = buffer ]_vars

\* four nonzero bytes read, then one byte of room ensured
EnsureCapacityGrowthWitness ==
    /\ op.name = "ensure_capacity" /\ op.arg = 1
    /\ position = 4 /\ buffer = <<1, 1, 1, 1, 0>>

\* C10: a put_ of encoded width w made at position c changes no byte below c
\* and no byte at or above c + w that existed before, and the storage length
\* becomes max(old length, c + w).
WriteFrame ==
    [][ op'.name \in PutNames =>
          LET c == position
              w == EncodedWidth(op')
          IN  /\ Len(buffer') = Max(Len(buffer), c + w)
              /\ \A i \in 1..Len(buffer) :
                    (i <= c \/ i > c + w) => buffer'[i] = buffer[i] ]_vars

\* a string written strictly inside pre-loaded storage
WriteFrameWitness ==
    /\ op.name = "put_string" /\ Len(op.arg) > 0
    /\ op.start > 0 /\ position < Len(buffer)

====
